---- MODULE Spec2Model ----
(***************************************************************************)
(* Model of src/src/app.tsx: the App component of the Canva image upload   *)
(* app.  Component state (imageUrl, isUploading, error, success), the two  *)
(* upload handlers with every await as one step, and the pure helpers      *)
(* (MIME sniffing, data-URL parsing, extension fallback) computed on       *)
(* strings represented as sequences of one-character strings.              *)
(***************************************************************************)
EXTENDS Integers, Sequences, FiniteSets, TLC

(***************************************************************************)
(* String literals.  A JavaScript string is a sequence of characters;      *)
(* user-visible messages, which the code only compares or searches for a   *)
(* phrase, are sequences of words.                                         *)
(***************************************************************************)
MimePng == <<"i", "m", "a", "g", "e", "/", "p", "n", "g">>  \* "image/png"
MimeJpeg == <<"i", "m", "a", "g", "e", "/", "j", "p", "e", "g">>  \* "image/jpeg"
MimeJpg == <<"i", "m", "a", "g", "e", "/", "j", "p", "g">>  \* "image/jpg"
\* variant: the prefix tested is the empty string
ImagePrefixEmpty == <<>>
ImagePrefix == <<"i", "m", "a", "g", "e", "/">>  \* "image/"
DataPrefix == <<"d", "a", "t", "a", ":">>  \* "data:"
Base64Marker == <<";", "b", "a", "s", "e", "6", "4", ",">>  \* ";base64,"
Base64Alphabet == <<"A", "B", "C", "D", "E", "F", "G", "H", "I", "J", "K", "L", "M", "N", "O", "P", "Q", "R", "S", "T", "U", "V", "W", "X", "Y", "Z", "a", "b", "c", "d", "e", "f", "g", "h", "i", "j", "k", "l", "m", "n", "o", "p", "q", "r", "s", "t", "u", "v", "w", "x", "y", "z", "0", "1", "2", "3", "4", "5", "6", "7", "8", "9", "+", "/">>  \* "ABCDEFGHIJKLMNOPQRSTUVWXYZabcdefghijklmnopqrstuvwxyz0123456789+/"
UpperCase == <<"A", "B", "C", "D", "E", "F", "G", "H", "I", "J", "K", "L", "M", "N", "O", "P", "Q", "R", "S", "T", "U", "V", "W", "X", "Y", "Z">>  \* "ABCDEFGHIJKLMNOPQRSTUVWXYZ"
LowerCase == <<"a", "b", "c", "d", "e", "f", "g", "h", "i", "j", "k", "l", "m", "n", "o", "p", "q", "r", "s", "t", "u", "v", "w", "x", "y", "z">>  \* "abcdefghijklmnopqrstuvwxyz"
Digits == <<"0", "1", "2", "3", "4", "5", "6", "7", "8", "9">>  \* "0123456789"
ExtPng == <<"p", "n", "g">>
InvalidUrlPhrase == <<"Invalid", "URL">>

\* intl.formatMessage defaultMessage texts
MsgSelectImage == <<"Please", "select", "an", "image", "file">>
MsgFileGeneric == <<"Failed", "to", "upload", "image.", "Please", "try", "again.">>
MsgEnterUrl == <<"Please", "enter", "an", "image", "URL">>
MsgValidUrl == <<"Please", "enter", "a", "valid", "URL">>
MsgUrlGeneric == <<"Failed", "to", "upload", "image.", "Please", "check", "the", "URL", "and", "try", "again.">>
\* message of the TypeError thrown by the URL constructor
MsgUrlConstructor == <<"Failed", "to", "construct", "'URL':", "Invalid", "URL">>
\* messages carried by errors of the upload / insertion collaborators
MsgQuota == <<"Upload", "quota", "exceeded">>
MsgAssetInvalidUrl == <<"Invalid", "URL", "for", "asset">>

\* string | null : the empty sequence is null, <<m>> is the string m
Null == <<>>
Some(m) == <<m>>

(***************************************************************************)
(* Input values                                                            *)
(***************************************************************************)
UrlEmpty == <<>>
UrlBlank == <<" ", " ">>  \* "  "
UrlNotAUrl == <<"n", "o", "t", " ", "a", " ", "u", "r", "l">>  \* "not a url"
UrlPngQuery == <<"h", "t", "t", "p", ":", "/", "/", "h", "/", "a", ".", "p", "n", "g", "?", "x", "=", "1">>  \* "http://h/a.png?x=1"
UrlPngDottedQuery == <<"h", "t", "t", "p", ":", "/", "/", "h", "/", "a", ".", "p", "n", "g", "?", "v", "=", "1", ".", "2">>  \* "http://h/a.png?v=1.2"
UrlUpperPng == <<"h", "t", "t", "p", ":", "/", "/", "h", "/", "c", ".", "P", "N", "G">>  \* "http://h/c.PNG"
UrlJpg == <<"h", "t", "t", "p", ":", "/", "/", "h", "/", "b", ".", "j", "p", "g">>  \* "http://h/b.jpg"
UrlDataPng == <<"d", "a", "t", "a", ":", "i", "m", "a", "g", "e", "/", "p", "n", "g", ";", "b", "a", "s", "e", "6", "4", ",", "A", "A", "=", "=">>  \* "data:image/png;base64,AA=="
UrlDataJpg == <<"d", "a", "t", "a", ":", "i", "m", "a", "g", "e", "/", "j", "p", "g", ";", "b", "a", "s", "e", "6", "4", ",", "A", "A", "=", "=">>  \* "data:image/jpg;base64,AA=="
UrlDataGif == <<"d", "a", "t", "a", ":", "i", "m", "a", "g", "e", "/", "g", "i", "f", ";", "b", "a", "s", "e", "6", "4", ",", "A", "A", "=", "=">>  \* "data:image/gif;base64,AA=="
TypeGif == <<"i", "m", "a", "g", "e", "/", "g", "i", "f">>  \* "image/gif"
TypeText == <<"t", "e", "x", "t", "/", "p", "l", "a", "i", "n">>  \* "text/plain"
CtPngCharset == <<"i", "m", "a", "g", "e", "/", "p", "n", "g", ";", " ", "c", "h", "a", "r", "s", "e", "t", "=", "b", "i", "n", "a", "r", "y">>  \* "image/png; charset=binary"
CtHtml == <<"t", "e", "x", "t", "/", "h", "t", "m", "l">>  \* "text/html"
TypeAbsent == <<>>

SetMin(S) == CHOOSE x \in S : \A y \in S : x <= y
SetMax(S) == CHOOSE x \in S : \A y \in S : x >= y

(***************************************************************************)
(* String primitives of the platform, as the code uses them                *)
(***************************************************************************)
StartsWith(s, p) == Len(s) >= Len(p) /\ SubSeq(s, 1, Len(p)) = p

Includes(s, t) == \E i \in 0..(Len(s) - Len(t)) : SubSeq(s, i + 1, i + Len(t)) = t

IsSpace(c) == c = " "

\* variant: the string is tested as typed, without trimming
TrimNothing(s) == s

Trim(s) ==
  LET keep == {i \in 1..Len(s) : ~IsSpace(s[i])}
  IN  IF keep = {} THEN <<>> ELSE SubSeq(s, SetMin(keep), SetMax(keep))

\* s.split(sep).pop()
SplitPop(s, sep) ==
  LET at == {i \in 1..Len(s) : s[i] = sep}
  IN  IF at = {} THEN s ELSE SubSeq(s, SetMax(at) + 1, Len(s))

\* s.split(sep)[0]
SplitFirst(s, sep) ==
  LET at == {i \in 1..Len(s) : s[i] = sep}
  IN  IF at = {} THEN s ELSE SubSeq(s, 1, SetMin(at) - 1)

ToLowerChar(c) ==
  IF \E k \in 1..Len(UpperCase) : UpperCase[k] = c
  THEN LowerCase[CHOOSE k \in 1..Len(UpperCase) : UpperCase[k] = c]
  ELSE c

ToLowerCase(s) == [i \in 1..Len(s) |-> ToLowerChar(s[i])]

IsAlpha(c) == \E k \in 1..Len(LowerCase) : LowerCase[k] = c \/ UpperCase[k] = c
IsDigit(c) == \E k \in 1..Len(Digits) : Digits[k] = c

(***************************************************************************)
(* new URL(url): the platform's URL parser, without a base URL.  Leading   *)
(* and trailing spaces are stripped; a scheme (a letter, then letters,     *)
(* digits, + - .) and a colon must follow; a special scheme needs a        *)
(* non-empty host without spaces.                                          *)
(***************************************************************************)
IsSchemeChar(c) == IsAlpha(c) \/ IsDigit(c) \/ c \in {"+", "-", "."}

SpecialSchemes ==
  { <<"h", "t", "t", "p">>, <<"h", "t", "t", "p", "s">>, <<"f", "t", "p">>,
    <<"w", "s">>, <<"w", "s", "s">> }

UrlHost(rest) ==
  LET body  == {i \in 1..Len(rest) : rest[i] \notin {"/", "\\"}}
      from  == IF body = {} THEN Len(rest) + 1 ELSE SetMin(body)
      stops == {i \in from..Len(rest) : rest[i] \in {"/", "\\", "?", "#"}}
      to    == IF stops = {} THEN Len(rest) ELSE SetMin(stops) - 1
  IN  SubSeq(rest, from, to)

IsValidUrl(url) ==
  LET s      == Trim(url)
      colons == {i \in 1..Len(s) : s[i] = ":"}
  IN  /\ colons # {}
      /\ LET c      == SetMin(colons)
             scheme == ToLowerCase(SubSeq(s, 1, c - 1))
             host   == UrlHost(SubSeq(s, c + 1, Len(s)))
         IN  /\ c > 1
             /\ IsAlpha(s[1])
             /\ \A i \in 1..(c - 1) : IsSchemeChar(s[i])
             /\ scheme \in SpecialSchemes =>
                  (host # <<>> /\ \A i \in 1..Len(host) : ~IsSpace(host[i]))

(***************************************************************************)
(* fileToDataUrl: FileReader.readAsDataURL gives                           *)
(* "data:" + file.type + ";base64," + base64(content).                     *)
(***************************************************************************)
RECURSIVE Base64(_)
Base64(b) ==
  IF Len(b) = 0 THEN <<>>
  ELSE LET b2   == IF Len(b) >= 2 THEN b[2] ELSE 0
           b3   == IF Len(b) >= 3 THEN b[3] ELSE 0
           n    == b[1] * 65536 + b2 * 256 + b3
           c(k) == Base64Alphabet[((n \div (64 ^ k)) % 64) + 1]
       IN  <<c(3), c(2)>>
             \o (IF Len(b) >= 2 THEN <<c(1)>> ELSE <<"=">>)
             \o (IF Len(b) >= 3 THEN <<c(0)>> ELSE <<"=">>)
             \o (IF Len(b) > 3 THEN Base64(SubSeq(b, 4, Len(b))) ELSE <<>>)

fileToDataUrl(file) == DataPrefix \o file.type \o Base64Marker \o Base64(file.bytes)

(***************************************************************************)
(* getImageInfo: the MIME type part                                        *)
(***************************************************************************)
\* url.match(/data:([^;]+)/): the captured group of the first match, or null
DataUrlMatch(url) ==
  LET starts == {i \in 1..Len(url) :
                   /\ i + 5 <= Len(url)
                   /\ SubSeq(url, i, i + 4) = DataPrefix
                   /\ url[i + 5] # ";"}
  IN  IF starts = {} THEN Null
      ELSE LET from  == SetMin(starts) + 5
               stops == {j \in from..Len(url) : url[j] = ";"}
               to    == IF stops = {} THEN Len(url) ELSE SetMin(stops) - 1
           IN  Some(SubSeq(url, from, to))

\* variant: the whole match (mimeMatch[0]) is compared instead of the captured group
DataUrlMimeTypeWholeMatch(url) ==
  LET mimeMatch == DataUrlMatch(url)
  IN  IF mimeMatch # Null /\ DataPrefix \o mimeMatch[1] = MimePng THEN MimePng ELSE MimeJpeg

DataUrlMimeType(url) ==
  LET mimeMatch == DataUrlMatch(url)
  IN  IF mimeMatch # Null /\ mimeMatch[1] = MimePng THEN MimePng ELSE MimeJpeg

\* the try branch: contentType is response.headers.get("content-type")
HeadMimeType(contentType) ==
  IF contentType # Null /\ contentType[1] # <<>>
  THEN IF Includes(contentType[1], MimePng) THEN MimePng ELSE MimeJpeg
  ELSE MimeJpeg

\* variant: the query string is left on the extension
UrlExtensionWithQuery(url) == ToLowerCase(SplitPop(url, "."))

\* url.split(".").pop()?.toLowerCase().split("?")[0]
UrlExtension(url) == SplitFirst(ToLowerCase(SplitPop(url, ".")), "?")

\* the catch branch
FallbackMimeType(url) == IF UrlExtension(url) = ExtPng THEN MimePng ELSE MimeJpeg

(***************************************************************************)
(* getFileMimeType                                                         *)
(***************************************************************************)
\* bytes[i] of a Uint8Array: undefined (here -1) beyond the end
ByteAt(bytes, i) == IF i + 1 <= Len(bytes) THEN bytes[i + 1] ELSE -1

\* file.slice(0, 8)
Slice8(bytes) == SubSeq(bytes, 1, IF Len(bytes) < 8 THEN Len(bytes) ELSE 8)

\* variant: the default of the last else branch is PNG
SniffBytesDefaultPng(bytes) ==
  IF /\ ByteAt(bytes, 0) = 137 /\ ByteAt(bytes, 1) = 80
     /\ ByteAt(bytes, 2) = 78  /\ ByteAt(bytes, 3) = 71
  THEN MimePng
  ELSE IF ByteAt(bytes, 0) = 255 /\ ByteAt(bytes, 1) = 216 /\ ByteAt(bytes, 2) = 255
       THEN MimeJpeg
       ELSE MimePng

\* reader.onload
SniffBytes(bytes) ==
  IF /\ ByteAt(bytes, 0) = 137 /\ ByteAt(bytes, 1) = 80
     /\ ByteAt(bytes, 2) = 78  /\ ByteAt(bytes, 3) = 71
  THEN MimePng
  ELSE IF ByteAt(bytes, 0) = 255 /\ ByteAt(bytes, 1) = 216 /\ ByteAt(bytes, 2) = 255
       THEN MimeJpeg
       ELSE MimeJpeg

\* TRUE when the declared type decides and no byte is read
DeclaredTypeDecides(file) == file.type \in {MimePng, MimeJpeg, MimeJpg}

\* readFails: reader.onerror fires instead of reader.onload
getFileMimeType(file, readFails) ==
  IF file.type = MimePng THEN MimePng
  ELSE IF file.type = MimeJpeg \/ file.type = MimeJpg THEN MimeJpeg
  ELSE IF readFails THEN MimeJpeg
  ELSE SniffBytes(Slice8(file.bytes))

(***************************************************************************)
(* Inputs and outcomes of the platform and of the collaborators            *)
(***************************************************************************)
PngBytes  == <<137, 80, 78, 71, 13, 10, 26, 10>>
JpegBytes == <<255, 216, 255, 224>>
GifBytes  == <<71, 73, 70, 56>>

NoFile == [name |-> "", type |-> <<>>, bytes |-> <<>>]

Files ==
  { [name |-> "a.png", type |-> MimePng,    bytes |-> PngBytes],
    [name |-> "b.jpg", type |-> MimeJpeg,   bytes |-> PngBytes],
    [name |-> "c.png", type |-> MimePng,    bytes |-> JpegBytes],
    [name |-> "d.gif", type |-> TypeGif,    bytes |-> PngBytes],
    [name |-> "e.gif", type |-> TypeGif,    bytes |-> JpegBytes],
    [name |-> "",      type |-> TypeGif,    bytes |-> GifBytes],
    [name |-> "g.txt", type |-> TypeText,   bytes |-> GifBytes],
    [name |-> "h",     type |-> TypeAbsent, bytes |-> PngBytes] }

Urls ==
  { UrlEmpty, UrlBlank, UrlNotAUrl, UrlPngQuery, UrlPngDottedQuery, UrlUpperPng,
    UrlJpg, UrlDataPng, UrlDataJpg, UrlDataGif }

\* what the decoder reports as img.width, img.height
Dims == { [width |-> 2, height |-> 3], [width |-> 640, height |-> 480] }

\* response.headers.get("content-type") of a HEAD response
ContentTypes == { Null, Some(CtPngCharset), Some(MimeJpg), Some(CtHtml) }

\* values thrown or rejected: cls is the constructor the code tests with instanceof
UrlTypeError == [cls |-> "TypeError", message |-> MsgUrlConstructor]
LoadEvent    == [cls |-> "Event", message |-> <<>>]
CollabErrors ==
  { [cls |-> "Error",     message |-> MsgQuota],
    [cls |-> "TypeError", message |-> MsgAssetInvalidUrl],
    [cls |-> "String",    message |-> <<>>] }

IsError(err)     == err.cls \in {"Error", "TypeError"}
IsTypeError(err) == err.cls = "TypeError"

(***************************************************************************)
(* Component state                                                         *)
(***************************************************************************)
VARIABLES
  imageUrl,     \* useState("")
  isUploading,  \* useState(false)
  error,        \* useState<string | null>(null)
  success,      \* useState(false)
  attempts,     \* the invocations of the two handlers, one per slot
  latest        \* slot of the most recent invocation that passed its pre-check

vars == <<imageUrl, isUploading, error, success, attempts, latest>>

NumSlots == 2
Slots == 1..NumSlots

InFlightPcs == {"sniff", "read", "head", "decode", "upload", "insert", "confirm"}

IdleAttempt ==
  [ kind |-> "none", pc |-> "idle", file |-> NoFile, url |-> <<>>,
    mimeType |-> <<>>, infoMime |-> <<>>, head |-> "none", sniffRead |-> "none",
    dims |-> Null, uploadArgs |-> Null, insertArgs |-> Null, thrown |-> Null,
    concurrent |-> FALSE, log |-> <<>> ]

InFlight(s) == attempts[s].pc \in InFlightPcs

Init ==
  /\ imageUrl = <<>>
  /\ isUploading = FALSE
  /\ error = Null
  /\ success = FALSE
  /\ attempts = [s \in Slots |-> IdleAttempt]
  /\ latest = 0

\* a handler invocation takes the lowest slot that holds no running attempt
FreeSlot(s) == ~InFlight(s) /\ \A t \in Slots : t < s => InFlight(t)

\* another invocation is still running when the one in slot s starts
Overlaps(s) == \E t \in Slots : t # s /\ InFlight(t)

(***************************************************************************)
(* The chain of awaits of one attempt                                      *)
(***************************************************************************)
\* getImageInfo(url): a data URL goes to the decoder, any other URL is probed first
InfoFirstStep(url) == IF StartsWith(url, DataPrefix) THEN "decode" ELSE "head"

\* variant: upload() is awaited before getImageInfo()
NextStepUploadFirst(step, url) ==
  CASE step = "sniff"   -> "read"
    [] step = "read"    -> "upload"
    [] step = "upload"  -> InfoFirstStep(url)
    [] step = "head"    -> "decode"
    [] step = "decode"  -> "insert"
    [] step = "insert"  -> "confirm"
    [] step = "confirm" -> "done"

\* variant: image.whenUploaded() is not awaited
NextStepNoConfirm(step, url) ==
  CASE step = "sniff"   -> "read"
    [] step = "read"    -> InfoFirstStep(url)
    [] step = "head"    -> "decode"
    [] step = "decode"  -> "upload"
    [] step = "upload"  -> "insert"
    [] step = "insert"  -> "done"
    [] step = "confirm" -> "done"

\* variant: image.whenUploaded() is awaited before addElement()
NextStepConfirmFirst(step, url) ==
  CASE step = "sniff"   -> "read"
    [] step = "read"    -> InfoFirstStep(url)
    [] step = "head"    -> "decode"
    [] step = "decode"  -> "upload"
    [] step = "upload"  -> "confirm"
    [] step = "confirm" -> "insert"
    [] step = "insert"  -> "done"

\* the await that follows the one that has just resolved
NextStep(step, url) ==
  CASE step = "sniff"   -> "read"
    [] step = "read"    -> InfoFirstStep(url)
    [] step = "head"    -> "decode"
    [] step = "decode"  -> "upload"
    [] step = "upload"  -> "insert"
    [] step = "insert"  -> "confirm"
    [] step = "confirm" -> "done"

AltText(att) ==
  IF att.kind = "file" /\ att.file.name # "" THEN att.file.name ELSE "uploaded image"

\* the call that opens a step, with the arguments the handler passes
Begin(att, step) ==
  LET a1 == [att EXCEPT !.pc = step, !.log = Append(@, <<"begin", step>>)]
  IN  CASE step = "upload" ->
             [a1 EXCEPT !.uploadArgs =
                Some([ mimeType |-> att.mimeType, url |-> att.url, thumbnailUrl |-> att.url,
                       width |-> IF att.dims = Null THEN -1 ELSE att.dims[1].width,
                       height |-> IF att.dims = Null THEN -1 ELSE att.dims[1].height ])]
        [] step = "insert" ->
             [a1 EXCEPT !.insertArgs = Some([ref |-> "image.ref", altText |-> AltText(att)])]
        [] step = "decode" /\ StartsWith(att.url, DataPrefix) ->
             [a1 EXCEPT !.infoMime = DataUrlMimeType(att.url)]
        [] OTHER -> a1

\* catch blocks
FileCatchMessage(err) == IF IsError(err) THEN err.message ELSE MsgFileGeneric

UrlCatchMessage(err) ==
  IF IsTypeError(err) /\ Includes(err.message, InvalidUrlPhrase)
  THEN MsgValidUrl
  ELSE IF IsError(err) THEN err.message ELSE MsgUrlGeneric

CatchMessage(kind, err) ==
  IF kind = "file" THEN FileCatchMessage(err) ELSE UrlCatchMessage(err)

\* the handler returns: its locals are gone, what it was called with and did remains
Finished(att, pc) ==
  [IdleAttempt EXCEPT !.kind = att.kind, !.pc = pc, !.file = att.file, !.url = att.url,
                      !.thrown = att.thrown, !.concurrent = att.concurrent,
                      !.log = att.log]

\* variant: no finally block, isUploading stays as it is
ThrowNoFinally(s, att, err) ==
  /\ attempts' = [attempts EXCEPT ![s] =
        Finished([att EXCEPT !.thrown = Some(err), !.log = Append(@, <<"err", att.pc>>)],
                 "failed")]
  /\ error' = Some(CatchMessage(att.kind, err))
  /\ UNCHANGED <<imageUrl, isUploading, success, latest>>

\* a rejected await: catch, then finally
Throw(s, att, err) ==
  /\ attempts' = [attempts EXCEPT ![s] =
        Finished([att EXCEPT !.thrown = Some(err), !.log = Append(@, <<"err", att.pc>>)],
                 "failed")]
  /\ error' = Some(CatchMessage(att.kind, err))
  /\ isUploading' = FALSE
  /\ UNCHANGED <<imageUrl, success, latest>>

\* variant: the end of the try block leaves the text of the input as it is
ContinueKeepsUrl(s, done) ==
  LET nxt == NextStep(done.pc, done.url)
  IN  IF nxt = "done"
      THEN /\ attempts' = [attempts EXCEPT ![s] = Finished(done, "succeeded")]
           /\ success' = TRUE
           /\ isUploading' = FALSE
           /\ UNCHANGED <<imageUrl, error, latest>>
      ELSE /\ attempts' = [attempts EXCEPT ![s] = Begin(done, nxt)]
           /\ UNCHANGED <<imageUrl, isUploading, error, success, latest>>

\* a resolved await: the next await, or the end of the try block and finally
Continue(s, done) ==
  LET nxt == NextStep(done.pc, done.url)
  IN  IF nxt = "done"
      THEN /\ attempts' = [attempts EXCEPT ![s] = Finished(done, "succeeded")]
           /\ success' = TRUE
           /\ imageUrl' = <<>>
           /\ isUploading' = FALSE
           /\ UNCHANGED <<error, latest>>
      ELSE /\ attempts' = [attempts EXCEPT ![s] = Begin(done, nxt)]
           /\ UNCHANGED <<imageUrl, isUploading, error, success, latest>>

(***************************************************************************)
(* The handlers, up to their first await                                   *)
(***************************************************************************)
handleFileUpload(s, file) ==
  IF ~StartsWith(file.type, ImagePrefix)
  THEN /\ error' = Some(MsgSelectImage)
       /\ attempts' = [attempts EXCEPT ![s] =
             [IdleAttempt EXCEPT !.kind = "file", !.pc = "rejected", !.file = file]]
       /\ UNCHANGED <<imageUrl, isUploading, success, latest>>
  ELSE /\ isUploading' = TRUE
       /\ error' = Null
       /\ success' = FALSE
       /\ attempts' = [attempts EXCEPT ![s] =
             Begin([IdleAttempt EXCEPT !.kind = "file", !.file = file,
                      !.concurrent = Overlaps(s),
                      !.sniffRead = IF DeclaredTypeDecides(file) THEN "none" ELSE "pending"],
                   "sniff")]
       /\ latest' = s
       /\ UNCHANGED imageUrl

handleUrlUpload(s, url) ==
  IF Trim(url) = <<>>
  THEN /\ error' = Some(MsgEnterUrl)
       /\ attempts' = [attempts EXCEPT ![s] =
             [IdleAttempt EXCEPT !.kind = "url", !.pc = "rejected", !.url = url]]
       /\ UNCHANGED <<imageUrl, isUploading, success, latest>>
  ELSE IF ~IsValidUrl(url)
  THEN \* new URL(url) throws inside the try block: catch and finally run at once
       /\ attempts' = [attempts EXCEPT ![s] =
             [IdleAttempt EXCEPT !.kind = "url", !.pc = "failed", !.url = url,
                !.thrown = Some(UrlTypeError), !.concurrent = Overlaps(s),
                !.log = <<<<"err", "parse">>>>]]
       /\ error' = Some(UrlCatchMessage(UrlTypeError))
       /\ success' = FALSE
       /\ isUploading' = FALSE
       /\ latest' = s
       /\ UNCHANGED imageUrl
  ELSE /\ isUploading' = TRUE
       /\ error' = Null
       /\ success' = FALSE
       /\ attempts' = [attempts EXCEPT ![s] =
             Begin([IdleAttempt EXCEPT !.kind = "url", !.url = url,
                      !.concurrent = Overlaps(s)],
                   InfoFirstStep(url))]
       /\ latest' = s
       /\ UNCHANGED imageUrl

(***************************************************************************)
(* The awaits: each action is the continuation that runs when one settles  *)
(***************************************************************************)
Ok(att) == [att EXCEPT !.log = Append(@, <<"ok", att.pc>>)]

\* await getFileMimeType(file)
SniffDone(s) ==
  /\ attempts[s].pc = "sniff"
  /\ LET att == attempts[s]
     IN  \E readFails \in IF DeclaredTypeDecides(att.file) THEN {FALSE} ELSE BOOLEAN :
           Continue(s, Ok([att EXCEPT
              !.mimeType = getFileMimeType(att.file, readFails),
              !.sniffRead = IF DeclaredTypeDecides(att.file) THEN "none"
                            ELSE IF readFails THEN "error" ELSE "ok"]))

\* await fileToDataUrl(file)
ReadDone(s) ==
  /\ attempts[s].pc = "read"
  /\ LET att == attempts[s]
     IN  \/ Continue(s, Ok([att EXCEPT !.url = fileToDataUrl(att.file)]))
         \/ Throw(s, att, LoadEvent)

\* variant: getImageInfo has no catch around the probe, the rejection of fetch
\* reaches the catch block of the handler
HeadDoneRethrows(s) ==
  /\ attempts[s].pc = "head"
  /\ LET att == attempts[s]
     IN  \/ \E contentType \in ContentTypes :
              Continue(s, Ok([att EXCEPT
                 !.infoMime = HeadMimeType(contentType),
                 !.head = IF contentType = Null THEN "noheader" ELSE "header"]))
         \/ Throw(s, att, [cls |-> "TypeError", message |-> <<"Failed", "to", "fetch">>])

\* await fetch(url, { method: "HEAD" }) inside getImageInfo
HeadDone(s) ==
  /\ attempts[s].pc = "head"
  /\ LET att == attempts[s]
     IN  \/ \E contentType \in ContentTypes :
              Continue(s, Ok([att EXCEPT
                 !.infoMime = HeadMimeType(contentType),
                 !.head = IF contentType = Null THEN "noheader" ELSE "header"]))
         \/ Continue(s, [att EXCEPT
                 !.infoMime = FallbackMimeType(att.url),
                 !.head = "threw",
                 !.log = Append(@, <<"caught", "head">>)])

\* await of the Image load inside getImageInfo, and getImageInfo's return
DecodeDone(s) ==
  /\ attempts[s].pc = "decode"
  /\ LET att == attempts[s]
     IN  \/ \E d \in Dims :
              Continue(s, Ok([att EXCEPT
                 !.dims = Some(d),
                 !.mimeType = IF att.kind = "url" THEN att.infoMime ELSE @]))
         \/ Throw(s, att, LoadEvent)

\* await upload({...})
UploadDone(s) ==
  /\ attempts[s].pc = "upload"
  /\ \/ Continue(s, Ok(attempts[s]))
     \/ \E err \in CollabErrors : Throw(s, attempts[s], err)

\* await addElement({...})
InsertDone(s) ==
  /\ attempts[s].pc = "insert"
  /\ \/ Continue(s, Ok(attempts[s]))
     \/ \E err \in CollabErrors : Throw(s, attempts[s], err)

\* await image.whenUploaded()
ConfirmDone(s) ==
  /\ attempts[s].pc = "confirm"
  /\ \/ Continue(s, Ok(attempts[s]))
     \/ \E err \in CollabErrors : Throw(s, attempts[s], err)

Step(s) ==
  \/ SniffDone(s)
  \/ ReadDone(s)
  \/ HeadDone(s)
  \/ DecodeDone(s)
  \/ UploadDone(s)
  \/ InsertDone(s)
  \/ ConfirmDone(s)

(***************************************************************************)
(* The rendered controls                                                   *)
(***************************************************************************)
TextInputDisabled == isUploading
\* variant: the button is disabled for a blank input only
UrlButtonDisabledBlankOnly == Trim(imageUrl) = <<>>
UrlButtonDisabled == isUploading \/ Trim(imageUrl) = <<>>
FileInputDisabled == isUploading

\* variant: onChange stores the value only
TextInputChangeValueOnly(value) ==
  /\ ~TextInputDisabled
  /\ value # imageUrl
  /\ imageUrl' = value
  /\ UNCHANGED <<isUploading, error, success, attempts, latest>>

\* TextInput onChange
TextInputChange(value) ==
  /\ ~TextInputDisabled
  /\ value # imageUrl
  /\ imageUrl' = value
  /\ error' = Null
  /\ success' = FALSE
  /\ UNCHANGED <<isUploading, attempts, latest>>

\* Button onClick
UrlButtonClick ==
  /\ ~UrlButtonDisabled
  /\ \E s \in Slots : FreeSlot(s) /\ handleUrlUpload(s, imageUrl)

\* handleFileInputChange
FileInputChange(file) ==
  /\ ~FileInputDisabled
  /\ \E s \in Slots : FreeSlot(s) /\ handleFileUpload(s, file)

Next ==
  \/ \E value \in Urls : TextInputChange(value)
  \/ UrlButtonClick
  \/ \E file \in Files : FileInputChange(file)
  \/ \E s \in Slots : Step(s)

Spec == Init /\ [][Next]_vars

\* the awaits of a running attempt settle
SpecLive == Spec /\ \A s \in Slots : WF_vars(Step(s))

(***************************************************************************)
(* The handlers invoked directly, without the controls in front of them    *)
(***************************************************************************)
CallUrlUpload(url) == \E s \in Slots : FreeSlot(s) /\ handleUrlUpload(s, url)
CallFileUpload(file) == \E s \in Slots : FreeSlot(s) /\ handleFileUpload(s, file)

\* arguments of the direct calls: a blank, a malformed and a well-formed URL, an image
\* file and a file that is no image
DirectUrls == { UrlEmpty, UrlBlank, UrlNotAUrl, UrlJpg }
DirectFiles == { f \in Files : f.name \in {"a.png", "g.txt"} }

NextHandlers ==
  \/ \E url \in DirectUrls : CallUrlUpload(url)
  \/ \E file \in DirectFiles : CallFileUpload(file)
  \/ \E s \in Slots : Step(s)

SpecHandlers == Init /\ [][NextHandlers]_vars

(***************************************************************************)
(* getFileMimeType called on its own, on any File                          *)
(***************************************************************************)
MaxBytes == 4

\* file.type of the File handed to the sniffer
SnifferTypes == { TypeAbsent, MimePng, MimeJpeg, MimeJpg, TypeGif, TypeText }

\* the byte values the two signatures are made of
SnifferByteValues == { 137, 80, 78, 71, 255, 216 }

SnifferBytes == UNION { [1..n -> SnifferByteValues] : n \in 0..MaxBytes }

\* const mime = await getFileMimeType(file): the record keeps the argument,
\* whether the FileReader was used and how it ended, and the value resolved with
CallGetFileMimeType(type, bytes, readFails) ==
  LET file == [name |-> "", type |-> type, bytes |-> bytes]
  IN  /\ attempts' = [attempts EXCEPT ![1] =
            [IdleAttempt EXCEPT
               !.kind = "sniffer", !.pc = "returned", !.file = file,
               !.sniffRead = IF DeclaredTypeDecides(file) THEN "none"
                             ELSE IF readFails THEN "error" ELSE "ok",
               !.mimeType = getFileMimeType(file, readFails)]]
      /\ UNCHANGED <<imageUrl, isUploading, error, success, latest>>

\* one call per behaviour
NextSniffer ==
  /\ attempts[1].pc = "idle"
  /\ \E type \in SnifferTypes, bytes \in SnifferBytes, readFails \in BOOLEAN :
       CallGetFileMimeType(type, bytes, readFails)

SpecSniffer == Init /\ [][NextSniffer]_vars

(***************************************************************************)
(* Properties                                                              *)
(***************************************************************************)
Has(log, e) == \E i \in 1..Len(log) : log[i] = e

\* every occurrence of e2 in the log has one of the events es before it
OnlyAfter(log, es, e2) ==
  \A j \in 1..Len(log) : log[j] = e2 => \E i \in 1..(j - 1) : log[i] \in es

Running == {s \in Slots : InFlight(s)}

\* C1: in every attempt upload() is called only after the MIME type has been
\* determined and the decoder has delivered the dimensions in that attempt; an
\* attempt whose decode fails ends failed, with an error message set, and has
\* made no upload() call.
C1_UploadOnlyAfterProbe ==
  /\ [](\A s \in Slots :
          LET att == attempts[s]
          IN  /\ OnlyAfter(att.log, {<<"ok", "decode">>}, <<"begin", "upload">>)
              /\ att.kind = "file" =>
                   OnlyAfter(att.log, {<<"ok", "sniff">>}, <<"begin", "upload">>)
              /\ (att.kind = "url" /\ ~StartsWith(att.url, DataPrefix)) =>
                   OnlyAfter(att.log, {<<"ok", "head">>, <<"caught", "head">>},
                             <<"begin", "upload">>)
              /\ att.uploadArgs # Null =>
                   /\ att.dims # Null
                   /\ att.uploadArgs[1].mimeType \in {MimePng, MimeJpeg}
              /\ Has(att.log, <<"err", "decode">>) =>
                   /\ att.pc = "failed"
                   /\ ~Has(att.log, <<"begin", "upload">>))
  /\ [][\A s \in Slots :
          (attempts[s].pc = "decode" /\ attempts'[s].pc = "failed") =>
             (error' # Null /\ ~isUploading')]_vars

C1_Witness ==
  \E s \in Slots :
    /\ attempts[s].pc = "failed"
    /\ Has(attempts[s].log, <<"err", "decode">>)
    /\ error = Some(MsgUrlGeneric)

\* what the indicators show when the handler invocation in slot s was the last to write
ShowsOutcomeOf(s) ==
  IF attempts[s].pc = "succeeded"
  THEN success /\ error = Null
  ELSE ~success /\ error = Some(CatchMessage(attempts[s].kind, attempts[s].thrown[1]))

C3_OneAttemptInFlight ==
  /\ [](/\ Cardinality(Running) <= 1
        /\ Running # {} => isUploading)
  /\ [][Running # {} =>
          \A s \in Slots : ~InFlight(s) => attempts'[s] = attempts[s]]_vars

C3_Witness ==
  \E s \in Slots : attempts[s].pc = "upload" /\ isUploading /\ Trim(imageUrl) # <<>>

\* C4 as stated: whatever the declared type, a file that begins with the PNG
\* signature is sniffed as PNG and one that begins with FF D8 FF as JPEG.
C4_BytesDecide ==
  \A s \in Slots :
    LET att == attempts[s]
    IN  (att.kind = "file" /\ att.mimeType # <<>> /\ att.sniffRead # "error") =>
          /\ StartsWith(att.file.bytes, <<137, 80, 78, 71>>) => att.mimeType = MimePng
          /\ StartsWith(att.file.bytes, <<255, 216, 255>>) => att.mimeType = MimeJpeg

\* C5: success becomes true only in the step that ends an attempt in which
\* upload(), addElement() and whenUploaded() have all resolved; addElement() is
\* called only after upload() has resolved.
C5_SuccessAfterAllResolved ==
  /\ [](\A s \in Slots :
          /\ OnlyAfter(attempts[s].log, {<<"ok", "upload">>}, <<"begin", "insert">>)
          /\ attempts[s].pc = "succeeded" =>
               /\ Has(attempts[s].log, <<"ok", "upload">>)
               /\ Has(attempts[s].log, <<"ok", "insert">>)
               /\ Has(attempts[s].log, <<"ok", "confirm">>))
  /\ [][(success' /\ ~success) =>
          \E s \in Slots :
            /\ InFlight(s)
            /\ attempts'[s].pc = "succeeded"
            /\ Has(attempts'[s].log, <<"ok", "upload">>)
            /\ Has(attempts'[s].log, <<"ok", "insert">>)
            /\ Has(attempts'[s].log, <<"ok", "confirm">>)]_vars

C5_Witness ==
  success /\ \E s \in Slots : attempts[s].pc = "succeeded" /\ attempts[s].kind = "file"

\* position of a step in an order of the steps, 0 when it is not in it
Rank(order, step) ==
  IF \E k \in 1..Len(order) : order[k] = step
  THEN CHOOSE k \in 1..Len(order) : order[k] = step
  ELSE 0

\* the steps of the log begin in the given order, each after the one before it settled
RunsInOrder(log, order) ==
  \A j \in 1..Len(log) :
    log[j][1] = "begin" =>
      /\ j > 1 => log[j - 1][1] \in {"ok", "caught"}
      /\ \A i \in 1..(j - 1) :
           log[i][1] = "begin" => Rank(order, log[i][2]) < Rank(order, log[j][2])

\* C6 as stated: file read, HEAD probe, decode, upload, confirmation, insertion;
\* insertion does not begin before the confirmation has resolved.
C6_ConfirmBeforeInsert ==
  \A s \in Slots :
    /\ RunsInOrder(attempts[s].log,
                   <<"sniff", "read", "head", "decode", "upload", "confirm", "insert">>)
    /\ OnlyAfter(attempts[s].log, {<<"ok", "confirm">>}, <<"begin", "insert">>)

\* C6 (amended): the steps of an attempt begin in the order file read (sniffer
\* read, then data-URL read), HEAD probe, decode, upload, insertion,
\* confirmation, each after its predecessor has settled; whenUploaded() is
\* awaited only after addElement() has resolved.
C6_InsertBeforeConfirm ==
  \A s \in Slots :
    /\ RunsInOrder(attempts[s].log,
                   <<"sniff", "read", "head", "decode", "upload", "insert", "confirm">>)
    /\ OnlyAfter(attempts[s].log, {<<"ok", "insert">>}, <<"begin", "confirm">>)

C6_Witness ==
  \E s \in Slots : attempts[s].pc = "confirm" /\ Has(attempts[s].log, <<"ok", "insert">>)

Ended(s) ==
  /\ attempts'[s] # attempts[s]
  /\ attempts'[s].pc \in {"succeeded", "failed"}

\* C7: whenever an attempt ends, isUploading is false, a failed attempt has set an
\* error message, and the text input and the file input are enabled again (the
\* button too, unless the input is blank); when no attempt runs isUploading is
\* false; and, the awaits settling, every running attempt ends succeeded or
\* failed with isUploading false.
C7_AttemptAlwaysEnds ==
  /\ [][\A s \in Slots :
          Ended(s) =>
            /\ ~isUploading'
            /\ attempts'[s].pc = "failed" => error' # Null
            /\ ~TextInputDisabled' /\ ~FileInputDisabled'
            /\ UrlButtonDisabled' <=> (\A i \in 1..Len(imageUrl') : imageUrl'[i] = " ")]_vars
  /\ [](Running = {} => ~isUploading)
  /\ \A s \in Slots :
       InFlight(s) ~> (attempts[s].pc \in {"succeeded", "failed"} /\ ~isUploading)

C7_Witness ==
  \E s \in Slots :
    /\ attempts[s].pc = "failed"
    /\ Has(attempts[s].log, <<"err", "insert">>)
    /\ error = Some(MsgQuota)
    /\ ~isUploading

IsBlank(url) == \A i \in 1..Len(url) : url[i] = " "

\* C8: handleUrlUpload called with an empty or all-spaces string sets the
\* "Please enter an image URL" error and returns: it makes no HEAD request, no
\* decode, no upload() and no addElement() call and leaves isUploading, success
\* and imageUrl as they are.
C8_BlankUrlRejected ==
  /\ [](\A s \in Slots :
          (attempts[s].kind = "url" /\ IsBlank(attempts[s].url)) =>
             /\ attempts[s].pc = "rejected"
             /\ attempts[s].log = <<>>
             /\ attempts[s].uploadArgs = Null
             /\ attempts[s].insertArgs = Null)
  /\ [][\A s \in Slots :
          ( /\ attempts'[s] # attempts[s]
            /\ attempts'[s].kind = "url"
            /\ IsBlank(attempts'[s].url) ) =>
             /\ error' = Some(MsgEnterUrl)
             /\ isUploading' = isUploading
             /\ success' = success
             /\ imageUrl' = imageUrl
             /\ \A t \in Slots : t # s => attempts'[t] = attempts[t]]_vars

C8_Witness ==
  \E s \in Slots :
    /\ attempts[s].pc = "rejected"
    /\ attempts[s].url = UrlBlank
    /\ error = Some(MsgEnterUrl)

\* a URL that is not blank and has no scheme in front of a colon
Malformed(url) ==
  /\ ~IsBlank(url)
  /\ ~\E i \in 1..Len(url) : url[i] = ":"

\* C9 as stated: an attempt with a malformed URL ends failed before any HEAD
\* request, decode or upload() call, with the "Please enter a valid URL" error,
\* and no decode, upload or insertion failure shows that error.
C9_DistinctInvalidUrlError ==
  /\ [](\A s \in Slots :
          (attempts[s].kind = "url" /\ Malformed(attempts[s].url)) =>
             /\ attempts[s].pc = "failed"
             /\ attempts[s].log = <<<<"err", "parse">>>>)
  /\ [][\A s \in Slots :
          (Ended(s) /\ attempts'[s].pc = "failed") =>
             (error' = Some(MsgValidUrl) <=> Has(attempts'[s].log, <<"err", "parse">>))]_vars

\* the fail-fast half of C9, which the code satisfies
C9_FailFast ==
  /\ [](\A s \in Slots :
          (attempts[s].kind = "url" /\ Malformed(attempts[s].url)) =>
             /\ attempts[s].pc = "failed"
             /\ attempts[s].log = <<<<"err", "parse">>>>)
  /\ [][\A s \in Slots :
          (Ended(s) /\ Has(attempts'[s].log, <<"err", "parse">>)) =>
             error' = Some(MsgValidUrl)]_vars

\* the path ends in .png (any letter case) and a query string follows at once
PngThenQuery(url) ==
  \E i \in 1..Len(url) :
    /\ i + 4 <= Len(url)
    /\ ToLowerCase(SubSeq(url, i, i + 3)) = <<".", "p", "n", "g">>
    /\ url[i + 4] = "?"
    /\ \A j \in 1..(i - 1) : url[j] # "?"

\* no "." after the extension
NoLaterDot(url) ==
  \A i \in 1..Len(url) :
    (i + 4 <= Len(url) /\ ToLowerCase(SubSeq(url, i, i + 3)) = <<".", "p", "n", "g">>
       /\ url[i + 4] = "?")
    => \A j \in (i + 1)..Len(url) : url[j] # "."

C11_SnifferDefaultsToJpeg ==
  \A s \in Slots :
    LET att == attempts[s]
        b   == att.file.bytes
        png == Len(b) >= 4 /\ SubSeq(b, 1, 4) = <<137, 80, 78, 71>>
        jpg == Len(b) >= 3 /\ SubSeq(b, 1, 3) = <<255, 216, 255>>
    IN  (att.kind = "sniffer" /\ att.file.type = <<>>) =>
          /\ (att.sniffRead = "ok" /\ ~png /\ ~jpg) => att.mimeType = MimeJpeg
          /\ att.sniffRead = "error" => att.mimeType = MimeJpeg
          /\ att.sniffRead \in {"ok", "error"}

C11_Witness ==
  \E s \in Slots :
    /\ attempts[s].kind = "sniffer"
    /\ attempts[s].file.type = <<>>
    /\ attempts[s].file.bytes = <<255, 216, 80>>
    /\ attempts[s].sniffRead = "ok"
    /\ attempts[s].mimeType = MimeJpeg

\* the file holds a PNG image: its bytes begin with the PNG signature
IsPngFile(file) == Len(file.bytes) >= 4 /\ SubSeq(file.bytes, 1, 4) = <<137, 80, 78, 71>>

\* C12: whenever upload() has been called for a local file that holds a PNG image
\* (and no read of its bytes has failed), it was called with mimeType image/png and
\* with the width and the height the decoder delivered in the same attempt.
C12_PngFileUploadedAsPng ==
  \A s \in Slots :
    LET att == attempts[s]
    IN  (/\ att.kind = "file" /\ IsPngFile(att.file)
         /\ att.sniffRead # "error" /\ att.uploadArgs # Null) =>
          /\ att.uploadArgs[1].mimeType = MimePng
          /\ att.dims # Null
          /\ att.uploadArgs[1].width = att.dims[1].width
          /\ att.uploadArgs[1].height = att.dims[1].height

\* the dimension half of C12 alone, for both kinds of attempt: the width and the
\* height passed to upload() are the ones decoded in the same attempt
C12_DimsFromDecode ==
  \A s \in Slots :
    LET att == attempts[s]
    IN  att.uploadArgs # Null =>
          /\ att.dims # Null
          /\ att.dims[1] \in Dims
          /\ att.uploadArgs[1].width = att.dims[1].width
          /\ att.uploadArgs[1].height = att.dims[1].height

\* C13: when getImageInfo is called with a data URL, the MIME type it determines is
\* image/png for a URL that begins "data:image/png;" and image/jpeg for one that
\* begins "data:image/jpeg;" or "data:image/jpg;", and no HEAD request is made.
C13_DataUrlMimeFromPrefix ==
  \A s \in Slots :
    LET att == attempts[s]
        semi == <<";">>
    IN  StartsWith(att.url, DataPrefix) =>
          /\ att.head = "none"
          /\ \A i \in 1..Len(att.log) : att.log[i][2] # "head"
          /\ att.pc \in {"decode", "upload", "insert", "confirm"} =>
                /\ StartsWith(att.url, DataPrefix \o MimePng \o semi)
                      => att.infoMime = MimePng
                /\ (\/ StartsWith(att.url, DataPrefix \o MimeJpeg \o semi)
                    \/ StartsWith(att.url, DataPrefix \o MimeJpg \o semi))
                      => att.infoMime = MimeJpeg

C13_Witness ==
  \E s \in Slots :
    /\ attempts[s].kind = "url"
    /\ attempts[s].url = UrlDataPng
    /\ attempts[s].pc = "upload"
    /\ attempts[s].infoMime = MimePng
    /\ attempts[s].log = <<<<"begin", "decode">>, <<"ok", "decode">>, <<"begin", "upload">>>>

\* the text after the last "." of the URL, up to a "?" if one follows, is png in
\* any case of letters
EndsInPng(url) ==
  \E i \in 1..(Len(url) - 3) :
    /\ url[i] = "."
    /\ \A j \in (i + 1)..Len(url) : url[j] # "."
    /\ url[i + 1] \in {"p", "P"} /\ url[i + 2] \in {"n", "N"} /\ url[i + 3] \in {"g", "G"}
    /\ (Len(url) = i + 3 \/ url[i + 4] = "?")

C15_CollaboratorMessageVerbatim ==
  [][\A s \in Slots :
       (/\ attempts[s].pc \in {"upload", "insert", "confirm"}
        /\ attempts'[s].pc = "failed"
        /\ IsError(attempts'[s].thrown[1])) =>
          error' = Some(attempts'[s].thrown[1].message)]_vars

\* some attempt has ended failed or succeeded
SomeAttemptEnded == \E s \in Slots : attempts[s].pc \in {"failed", "succeeded"}

\* C16: once an attempt has ended failed or succeeded, a step that changes the text
\* of the URL input and is no step of an attempt (an edit by the user) leaves error
\* null and success false, stores a value of the input, and leaves isUploading as
\* it was.
C16_EditResetsAlerts ==
  [][(SomeAttemptEnded /\ attempts' = attempts /\ imageUrl' # imageUrl) =>
        /\ error' = Null
        /\ success' = FALSE
        /\ imageUrl' \in Urls
        /\ isUploading' = isUploading]_vars

\* the URL of the failed attempt has been edited: the input holds another text and
\* the message of the failure is gone
C16_Witness ==
  \E s \in Slots :
    /\ attempts[s].kind = "url"
    /\ attempts[s].pc = "failed"
    /\ \A t \in Slots : t # s => attempts[t].pc = "idle"
    /\ imageUrl # attempts[s].url
    /\ imageUrl # <<>>
    /\ error = Null
    /\ ~success

\* file.type does not begin with the six characters "image/"
NoImageType(file) ==
  \/ Len(file.type) < 6
  \/ SubSeq(file.type, 1, 6) # <<"i", "m", "a", "g", "e", "/">>

\* C17: a call of handleFileUpload with a file whose declared type does not start
\* with "image/" ends at once as rejected: the message "Please select an image
\* file" is set, isUploading is not set (it stays false), and in no state has that
\* attempt read the file, decoded, called upload() or called addElement().
C17_NonImageRejected ==
  /\ [](\A s \in Slots :
          LET att == attempts[s]
          IN  (att.kind = "file" /\ NoImageType(att.file)) =>
                /\ att.pc = "rejected"
                /\ att.log = <<>>
                /\ att.url = <<>> /\ att.dims = Null
                /\ att.uploadArgs = Null /\ att.insertArgs = Null)
  /\ [][\A s \in Slots :
          (/\ attempts'[s] # attempts[s]
           /\ attempts'[s].kind = "file" /\ NoImageType(attempts'[s].file)) =>
             /\ error' = Some(MsgSelectImage)
             /\ isUploading' = isUploading
             /\ ~isUploading']_vars

C17_Witness ==
  \E s \in Slots :
    /\ attempts[s].kind = "file"
    /\ attempts[s].file.type = TypeText
    /\ attempts[s].pc = "rejected"
    /\ error = Some(MsgSelectImage)
    /\ ~isUploading
    /\ ~success

\* C18: in no reachable state is success true while error holds a message.
C18_ErrorAndSuccessExclusive == ~(success /\ error # Null)

\* C19: a step of an attempt (the call of a handler or the settling of one of its
\* awaits) sets imageUrl to the empty string when it ends the attempt as succeeded
\* and leaves imageUrl as it is otherwise, whether the attempt goes on, ends failed
\* or is rejected by the pre-check.
C19_UrlClearedOnSuccessOnly ==
  [][\A s \in Slots :
       attempts'[s] # attempts[s] =>
         IF attempts'[s].pc = "succeeded"
         THEN imageUrl' = <<>>
         ELSE imageUrl' = imageUrl]_vars

\* an attempt started from a non-empty text of the input has succeeded and the
\* input is empty
C19_Witness ==
  \E s \in Slots :
    /\ attempts[s].kind = "url"
    /\ attempts[s].pc = "succeeded"
    /\ attempts[s].url # <<>>
    /\ imageUrl = <<>>
    /\ success

====
